---- MODULE Spec2Model ----
(***************************************************************************)
(* Model of src/datasets/munger.py: the three streaming pipelines that     *)
(* turn a Skyline trace export into labelled chromatogram arrays           *)
(*   lstm : parse_and_label_skyline_exported_chromatograms_lstm            *)
(*   cnn  : parse_and_label_skyline_exported_chromatograms_cnn             *)
(*   sub  : parse_and_label_skyline_exported_chromatogram_subsections_cnn  *)
(*                                                                         *)
(* One action is one iteration of the `for line in infile` loop (or the    *)
(* code after the loop).  A Python exception ends the run: pc = "aborted"; *)
(* the function's locals are then lost, only the files already written     *)
(* with np.save remain.                                                    *)
(* parse_skyline_exported_annotations, which builds the annotations the    *)
(* pipelines are given, is modelled the same way, one action per line of   *)
(* the annotation export.  SpecLoops runs the while loops over a group's    *)
(* windows one iteration per step; in the other specifications a loop runs *)
(* whole inside the step of its handler and loop_i, loop_j stay 0.         *)
(*                                                                         *)
(* Data representation                                                     *)
(*   - a numpy array is [ndim, rows]: ndim 0 is None, ndim 1 a vector      *)
(*     (one row), ndim 2 a matrix given by its rows;                       *)
(*   - floats are integers (every value used is an exactly representable   *)
(*     float), positive_percentage is given in percent;                    *)
(*   - a file name '_'.join([seq, repl, charge]) is the tuple of its       *)
(*     tokens, a subsection name adds the two offsets;                     *)
(*   - a trace row carries the replicate id already decoded from field 0;  *)
(*     sequence and charge fields of a data row are non-empty strings.     *)
(***************************************************************************)
EXTENDS Integers, Sequences, FiniteSets, TLC

VARIABLES
    mode,                 \* which of the three pipelines runs
    subsection_width,     \* parameter (cnn, sub)
    step_size,            \* parameter (cnn, sub)
    positive_percentage,  \* parameter (cnn, sub), in percent
    pc,                   \* "loop" | "done" | "aborted" | "label" | "labelled"
                          \* | "annotations" | "returned"
    parsed_annotations,   \* the dict built by parse_skyline_exported_annotations
    err,                  \* exception class that ended the run, or "none"
    infile,               \* the lines read so far (input history)
    line_counter,
    last_seq, last_repl, last_charge,
    trace_counter,
    chromatogram,         \* the active group's array
    chromatogram_id,
    chromatograms,        \* the manifest rows, in emission order
    labels,               \* lstm: point-label vectors; cnn: label_matrix
    row_labels,           \* cnn, sub: point labels of the last group opened
    chromatogram_labels,  \* cnn, sub: window labels of the active group
    saved,                \* the np.save calls so far: <<[name, arr], ...>>
    opened,               \* history: line number at which each group opened
    closed,               \* history: the groups closed (padded) so far
    loop_i, loop_j        \* the offsets i and j of a loop run step by step

vars == <<mode, subsection_width, step_size, positive_percentage, pc,
          parsed_annotations, err,
          infile, line_counter, last_seq, last_repl, last_charge,
          trace_counter, chromatogram, chromatogram_id, chromatograms,
          labels, row_labels, chromatogram_labels, saved, opened, closed,
          loop_i, loop_j>>

-----------------------------------------------------------------------------
(* Program constants and bounds *)

MaxTraces == 6

\* longest stream made of plain rows only
MaxLines == 9
\* longest stream that may hold any row of Rows
MaxRichLines == 3
\* longest time list drawn for the label derivation on its own
MaxTimes == 4
\* longest annotation export, in data lines
MaxAnnoLines == 3

Widths == {2, 3}
Steps == {1, 2}
Pcts == {50, 100}

-----------------------------------------------------------------------------
(* Inputs *)

NA == "#N/A"

\* The annotation index handed to the pipelines: replicate -> sequence -> window
annotations ==
    [r \in {"R1", "R2"} |->
        IF r = "R1"
        THEN [s \in {"A", "B"} |->
                 IF s = "A" THEN [start |-> 10, end |-> 20]
                            ELSE [start |-> 0, end |-> 0]]
        ELSE [s \in {"A"} |-> [start |-> 15, end |-> 25]]]

HasAnnotation(repl, seq) ==
    /\ repl \in DOMAIN annotations
    /\ seq \in DOMAIN annotations[repl]

Row(repl, seq, charge, times, ints) ==
    [repl |-> repl, seq |-> seq, charge |-> charge, times |-> times, ints |-> ints]

rA == Row("R1", "A", "2", <<5, 10, 15, 20, 25>>, <<1, 2, 3, 4, 5>>)
rB == Row("R1", "B", "2", <<5, 10, 15, 20, 25>>, <<6, 7, 8, 9, 10>>)
\* same sequence, other charge
rA3 == Row("R1", "A", "3", <<5, 10, 15, 20, 25>>, <<11, 12, 13, 14, 15>>)
\* same sequence and charge, other replicate
rA2 == Row("R2", "A", "2", <<5, 10, 15, 20, 25>>, <<16, 17, 18, 19, 20>>)
\* a sequence without annotation
rC == Row("R1", "C", "2", <<5, 10, 15, 20, 25>>, <<21, 22, 23, 24, 25>>)
\* fewer time points than MaxTraces - 1
rS == Row("R1", "B", "2", <<10, 15, 20>>, <<7, 8, 9>>)
\* eight time points, the peak is visited twice
rE == Row("R1", "A", "2", <<5, 15, 15, 15, 5, 5, 15, 15>>, <<1, 2, 3, 4, 5, 6, 7, 8>>)
\* a time list shorter than the intensity list
rM == Row("R1", "B", "3", <<5, 10, 15, 20>>, <<1, 1, 1, 1, 1>>)
\* a row whose sequence field is the missing-value marker
rNA == Row("R1", NA, "2", <<5, 10, 15, 20, 25>>, <<0, 0, 0, 0, 0>>)
\* the sequence and charge of rA in a replicate without annotation
rU == Row("R3", "A", "2", <<5, 10, 15, 20, 25>>, <<26, 27, 28, 29, 30>>)
\* a single time point
rT == Row("R1", "B", "3", <<15>>, <<3>>)

CoreRows == {rA, rB}
Rows == CoreRows \cup {rA3, rA2, rC, rS, rE, rM, rNA, rU, rT}

\* the next line of the export may be r
MayRead(r) ==
    \/ Len(infile) < MaxRichLines
    \/ /\ Len(infile) < MaxLines
       /\ r \in CoreRows
       /\ \A n \in 1..Len(infile) : infile[n] \in CoreRows

-----------------------------------------------------------------------------
(* numpy *)

None == [ndim |-> 0, rows |-> <<>>]
Raised == [ndim |-> -1, rows |-> <<>>]
Vec(v) == [ndim |-> 1, rows |-> <<v>>]
Mat(rs) == [ndim |-> 2, rows |-> rs]

NRows(a) == Len(a.rows)
NCols(a) == IF a.rows = <<>> THEN 0 ELSE Len(a.rows[1])

Max(x, y) == IF x >= y THEN x ELSE y
Min(x, y) == IF x <= y THEN x ELSE y

\* np.max(a.shape)
MaxShape(a) == IF a.ndim = 1 THEN NCols(a) ELSE Max(NRows(a), NCols(a))

\* np.zeros((1, n))
Zeros(n) == [t \in 1..n |-> 0]

\* np.vstack((a, v)) raises ValueError unless the row lengths agree
VStackOk(a, v) == a.ndim \in {1, 2} /\ NCols(a) = Len(v)
VStack(a, v) == Mat(Append(a.rows, v))

\* a variant of Transpose that leaves the array as it is
TransposeNot(a) == a

\* a.T of a matrix
Transpose(a) ==
    Mat([t \in 1..NCols(a) |-> [r \in 1..NRows(a) |-> a.rows[r][t]]])

\* a[:, i:j] of a matrix (0-based, j exclusive, cut at the array's end)
ColSlice(a, i, j) ==
    Mat([r \in 1..NRows(a) |-> SubSeq(a.rows[r], i + 1, Min(j, NCols(a)))])

\* (v == 1).sum()
RECURSIVE CountOnes(_)
CountOnes(v) ==
    IF v = <<>> THEN 0
    ELSE (IF Head(v) = 1 THEN 1 ELSE 0) + CountOnes(Tail(v))

-----------------------------------------------------------------------------
(* Label derivation *)

\* a variant of PointLabel that leaves the end of the window out
PointLabelOpenEnd(anno, time) ==
    IF anno.start <= time /\ time < anno.end THEN 1 ELSE 0

\* anno['start'] <= time <= anno['end']
PointLabel(anno, time) ==
    IF anno.start <= time /\ time <= anno.end THEN 1 ELSE 0

\* for time in times: label.append(...)
PointLabels(anno, times) ==
    [t \in 1..Len(times) |-> PointLabel(anno, times[t])]

\* a variant of WindowLabel without the fully positive clause
WindowLabelNoFull(in_sub, num_positive, w, pct) ==
    IF in_sub * 100 >= pct * num_positive THEN 1 ELSE 0

\* the test of one window: in_sub positives in the window, num_positive in
\* the whole vector, the window w wide, the threshold pct in percent
WindowLabel(in_sub, num_positive, w, pct) ==
    IF in_sub * 100 >= pct * num_positive \/ in_sub = w THEN 1 ELSE 0

\* while i + subsection_width <= times.shape[0]: ...; i += step_size
RECURSIVE WindowLoop(_, _, _, _, _, _)
WindowLoop(rl, n, i, w, step, pct) ==
    IF i + w <= n
    THEN <<WindowLabel(CountOnes(SubSeq(rl, i + 1, Min(i + w, Len(rl)))),
                       CountOnes(rl), w, pct)>>
         \o WindowLoop(rl, n, i + step, w, step, pct)
    ELSE <<>>

\* a variant of WindowLabels that stops one time point early
WindowLabelsStrict(rl, times) ==
    WindowLoop(rl, Len(times) - 1, 0, subsection_width, step_size,
               positive_percentage)

\* the window labels appended for a group whose first row has these times
WindowLabels(rl, times) ==
    WindowLoop(rl, Len(times), 0, subsection_width, step_size,
               positive_percentage)

-----------------------------------------------------------------------------
(* Grouping and padding *)

\* a variant of AppendLabel that puts the newest label row first
PrependLabel(ls, v) == <<v>> \o ls

\* labels.append(np.array(label)), label_matrix.append(...)
AppendLabel(ls, v) == Append(ls, v)

\* a variant of NewGroup that never closes a group for its size
NewGroupNoCap(r) ==
    \/ r.seq # last_seq
    \/ r.charge # last_charge

\* a variant of NewGroup that closes a group one row late
NewGroupLateCap(r) ==
    \/ r.seq # last_seq
    \/ r.charge # last_charge
    \/ trace_counter = MaxTraces + 1

\* seq != last_seq or charge != last_charge or trace_counter == 6
NewGroup(r) ==
    \/ r.seq # last_seq
    \/ r.charge # last_charge
    \/ trace_counter = MaxTraces

\* for i in range(n): chromatogram = np.vstack((chromatogram, np.zeros(...)))
RECURSIVE PadLoop(_, _)
PadLoop(a, n) ==
    IF n = 0 THEN a
    ELSE IF ~VStackOk(a, Zeros(MaxShape(a))) THEN Raised
    ELSE PadLoop(VStack(a, Zeros(MaxShape(a))), n - 1)

\* a variant of Pad that stops one row short
PadShort(a, tc) ==
    IF tc < MaxTraces - 1 THEN PadLoop(a, MaxTraces - 1 - tc) ELSE a

\* if trace_counter < 6: ...
Pad(a, tc) ==
    IF tc < MaxTraces THEN PadLoop(a, MaxTraces - tc) ELSE a

\* a variant of NextId that does not advance
SameId(id) == id

\* chromatogram_id += 1
NextId(id) == id + 1

\* '_'.join([last_seq, last_repl, last_charge])
Filename == <<last_seq, last_repl, last_charge>>

\* root + '_' + str(i) + '_to_' + str(i + subsection_width - 1)
SubFilename(root, i) ==
    [root |-> root, lo |-> i, hi |-> i + subsection_width - 1]

\* the record kept of a closed group: its file name, its real rows, its
\* padded array and the label vector it had when it closed
ClosedGroup(arr, lab) ==
    [key |-> Filename, k |-> trace_counter, arr |-> arr, lab |-> lab]

-----------------------------------------------------------------------------
(* Initial states *)

InitLocals ==
    /\ err = "none"
    /\ infile = <<>>
    /\ line_counter = 0
    /\ last_seq = "" /\ last_repl = "" /\ last_charge = ""
    /\ trace_counter = 0
    /\ chromatogram = None
    /\ chromatogram_id = 0
    /\ chromatograms = <<>>
    /\ labels = <<>>
    /\ row_labels = <<>>
    /\ chromatogram_labels = <<>>
    /\ saved = <<>>
    /\ opened = <<>>
    /\ closed = <<>>
    /\ loop_i = 0
    /\ loop_j = 0

Init ==
    /\ pc = "loop"
    /\ parsed_annotations = annotations
    /\ \/ /\ mode = "lstm"
          /\ subsection_width = 0 /\ step_size = 0 /\ positive_percentage = 0
       \/ /\ mode \in {"cnn", "sub"}
          /\ subsection_width \in Widths
          /\ step_size \in Steps
          /\ positive_percentage \in Pcts
    /\ InitLocals

-----------------------------------------------------------------------------
(* Steps shared by the three pipelines *)

Params == <<mode, subsection_width, step_size, positive_percentage>>

Locals == <<last_seq, last_repl, last_charge, trace_counter, chromatogram,
            chromatogram_id, chromatograms, labels, row_labels,
            chromatogram_labels>>

\* line_counter += 1, the line is consumed
ReadLine(r) ==
    /\ pc = "loop"
    /\ r \in Rows
    /\ MayRead(r)
    /\ infile' = Append(infile, r)
    /\ line_counter' = line_counter + 1
    /\ UNCHANGED Params
    /\ UNCHANGED <<parsed_annotations, loop_i, loop_j>>

\* an exception leaves the function: sv are the files written before it,
\* cl the groups closed before it
Abort(e, sv, cl) ==
    /\ pc' = "aborted"
    /\ err' = e
    /\ saved' = sv
    /\ closed' = cl
    /\ UNCHANGED Locals
    /\ UNCHANGED opened

\* a variant of SkipRow that records the sequence field before testing it
SkipRowForgets(r) ==
    /\ r.seq = NA
    /\ ReadLine(r)
    /\ last_seq' = r.seq
    /\ UNCHANGED <<pc, err, saved, opened, closed>>
    /\ UNCHANGED <<last_repl, last_charge, trace_counter, chromatogram,
                   chromatogram_id, chromatograms, labels, row_labels,
                   chromatogram_labels>>

\* if line[1] != '#N/A' is false: nothing but the line counter changes
SkipRow(r) ==
    /\ r.seq = NA
    /\ ReadLine(r)
    /\ UNCHANGED <<pc, err, saved, opened, closed>>
    /\ UNCHANGED Locals

\* chromatogram = ints; trace_counter = 1; last_seq, ... = seq, repl, charge
OpenGroup(r) ==
    /\ chromatogram' = Vec(r.ints)
    /\ trace_counter' = 1
    /\ last_seq' = r.seq
    /\ last_repl' = r.repl
    /\ last_charge' = r.charge
    /\ opened' = Append(opened, line_counter + 1)

\* else: chromatogram = np.vstack((chromatogram, ints)); trace_counter += 1
AppendTrace(r) ==
    IF ~VStackOk(chromatogram, r.ints)
    THEN Abort("ValueError", saved, closed)
    ELSE /\ chromatogram' = VStack(chromatogram, r.ints)
         /\ trace_counter' = trace_counter + 1
         /\ UNCHANGED <<pc, err, saved, opened, closed>>
         /\ UNCHANGED <<last_seq, last_repl, last_charge, chromatogram_id,
                        chromatograms, labels, row_labels,
                        chromatogram_labels>>

-----------------------------------------------------------------------------
(* parse_and_label_skyline_exported_chromatograms_lstm *)

RowLstm(r) ==
    /\ mode = "lstm"
    /\ r.seq # NA
    /\ ReadLine(r)
    /\ IF NewGroup(r)
       THEN LET closing == chromatogram # None
                padded == Pad(chromatogram, trace_counter)
                man == IF closing
                       THEN Append(chromatograms, <<chromatogram_id, Filename>>)
                       ELSE chromatograms
                sv == IF closing
                      THEN Append(saved, [name |-> Filename,
                                          arr |-> Transpose(padded)])
                      ELSE saved
                cl == IF closing
                      THEN Append(closed,
                                  ClosedGroup(padded, labels[Len(labels)]))
                      ELSE closed
            IN  IF closing /\ padded = Raised
                THEN Abort("ValueError", saved, closed)
                ELSE IF closing /\ NCols(padded) # Len(labels[Len(labels)])
                THEN Abort("AssertionError", sv, cl)
                ELSE IF ~HasAnnotation(r.repl, r.seq)
                THEN Abort("KeyError", sv, cl)
                ELSE /\ chromatograms' = man
                     /\ chromatogram_id' = IF closing
                                           THEN NextId(chromatogram_id)
                                           ELSE chromatogram_id
                     /\ saved' = sv
                     /\ closed' = cl
                     /\ OpenGroup(r)
                     /\ labels' = AppendLabel(labels,
                            PointLabels(annotations[r.repl][r.seq], r.times))
                     /\ UNCHANGED <<pc, err, row_labels, chromatogram_labels>>
       ELSE AppendTrace(r)

\* the code after the loop
FinishLstm ==
    /\ mode = "lstm"
    /\ pc = "loop"
    /\ UNCHANGED <<infile, line_counter, parsed_annotations, loop_i, loop_j>>
    /\ UNCHANGED Params
    /\ LET padded == Pad(chromatogram, trace_counter)
       IN  IF chromatogram = None
           THEN Abort("AttributeError", saved, closed)
           ELSE IF padded = Raised
           THEN Abort("ValueError", saved, closed)
           ELSE /\ pc' = "done"
                /\ chromatograms' = Append(chromatograms,
                                           <<chromatogram_id, Filename>>)
                /\ chromatogram_id' = NextId(chromatogram_id)
                /\ chromatogram' = padded
                /\ saved' = Append(saved, [name |-> Filename,
                                           arr |-> Transpose(padded)])
                /\ closed' = Append(closed,
                                    ClosedGroup(padded, labels[Len(labels)]))
                /\ UNCHANGED <<err, opened, last_seq, last_repl, last_charge,
                               trace_counter, labels, row_labels,
                               chromatogram_labels>>

-----------------------------------------------------------------------------
(* parse_and_label_skyline_exported_chromatograms_cnn *)

\* open a group in the cnn and sub pipelines: the array, the point labels of
\* the row's times and the window labels appended to base
OpenLabelled(r, base) ==
    /\ OpenGroup(r)
    /\ row_labels' = PointLabels(annotations[r.repl][r.seq], r.times)
    /\ chromatogram_labels' = base \o WindowLabels(row_labels', r.times)

RowCnn(r) ==
    /\ mode = "cnn"
    /\ r.seq # NA
    /\ ReadLine(r)
    /\ IF NewGroup(r)
       THEN LET closing == chromatogram # None
                padded == Pad(chromatogram, trace_counter)
                man == IF closing
                       THEN Append(chromatograms, <<chromatogram_id, Filename>>)
                       ELSE chromatograms
                sv == IF closing
                      THEN Append(saved, [name |-> Filename, arr |-> padded])
                      ELSE saved
                cl == IF closing
                      THEN Append(closed,
                                  ClosedGroup(padded, chromatogram_labels))
                      ELSE closed
                base == IF closing THEN <<>> ELSE chromatogram_labels
            IN  IF closing /\ padded = Raised
                THEN Abort("ValueError", saved, closed)
                ELSE IF ~HasAnnotation(r.repl, r.seq)
                THEN Abort("KeyError", sv, cl)
                ELSE /\ chromatograms' = man
                     /\ chromatogram_id' = IF closing
                                           THEN NextId(chromatogram_id)
                                           ELSE chromatogram_id
                     /\ saved' = sv
                     /\ closed' = cl
                     /\ OpenLabelled(r, base)
                     /\ labels' = AppendLabel(labels, chromatogram_labels')
                     /\ UNCHANGED <<pc, err>>
       ELSE AppendTrace(r)

\* the code after the loop
FinishCnn ==
    /\ mode = "cnn"
    /\ pc = "loop"
    /\ UNCHANGED <<infile, line_counter, parsed_annotations, loop_i, loop_j>>
    /\ UNCHANGED Params
    /\ LET padded == Pad(chromatogram, trace_counter)
       IN  IF chromatogram = None
           THEN Abort("AttributeError", saved, closed)
           ELSE IF padded = Raised
           THEN Abort("ValueError", saved, closed)
           ELSE /\ pc' = "done"
                /\ chromatograms' = Append(chromatograms,
                                           <<chromatogram_id, Filename>>)
                /\ chromatogram' = padded
                /\ saved' = Append(saved, [name |-> Filename, arr |-> padded])
                /\ closed' = Append(closed,
                                    ClosedGroup(padded, chromatogram_labels))
                /\ UNCHANGED <<err, opened, last_seq, last_repl, last_charge,
                               trace_counter, chromatogram_id, labels,
                               row_labels, chromatogram_labels>>

-----------------------------------------------------------------------------
(* parse_and_label_skyline_exported_chromatogram_subsections_cnn *)

NoSamples == [man |-> <<>>, sav |-> <<>>, ok |-> TRUE]
IndexError == [man |-> <<>>, sav |-> <<>>, ok |-> FALSE]

\* the array handed to np.save for the sample named by offset i: the slice is
\* taken after i += step_size
SavedSlice(arr, i) ==
    ColSlice(arr, i + step_size, i + step_size + subsection_width)

\* one sample: the manifest row and the file written
Sample(arr, root, id, lab, i, j) ==
    [man |-> <<<<id, SubFilename(root, i), lab[j + 1]>>>>,
     sav |-> <<[name |-> SubFilename(root, i), arr |-> SavedSlice(arr, i)]>>]

\* the loop of a group closed inside the stream:
\* while i + subsection_width <= chromatogram.shape[1]
RECURSIVE SubsectionsClose(_, _, _, _, _, _)
SubsectionsClose(arr, root, id, lab, i, j) ==
    IF i + subsection_width <= NCols(arr)
    THEN IF j >= Len(lab) THEN IndexError
         ELSE LET one == Sample(arr, root, id, lab, i, j)
                  rest == SubsectionsClose(arr, root, id, lab,
                                           i + step_size, j + 1)
              IN  [man |-> one.man \o rest.man,
                   sav |-> one.sav \o rest.sav,
                   ok |-> rest.ok]
    ELSE NoSamples

\* the loop of the group closed after the stream:
\* while i + subsection_width < chromatogram.shape[1]
RECURSIVE SubsectionsFinal(_, _, _, _, _, _)
SubsectionsFinal(arr, root, id, lab, i, j) ==
    IF i + subsection_width < NCols(arr)
    THEN IF j >= Len(lab) THEN IndexError
         ELSE LET one == Sample(arr, root, id, lab, i, j)
                  rest == SubsectionsFinal(arr, root, id, lab,
                                           i + step_size, j + 1)
              IN  [man |-> one.man \o rest.man,
                   sav |-> one.sav \o rest.sav,
                   ok |-> rest.ok]
    ELSE NoSamples

RowSub(r) ==
    /\ mode = "sub"
    /\ r.seq # NA
    /\ ReadLine(r)
    /\ IF NewGroup(r)
       THEN LET closing == chromatogram # None
                padded == Pad(chromatogram, trace_counter)
                out == IF closing /\ padded # Raised
                       THEN SubsectionsClose(padded, Filename, chromatogram_id,
                                             chromatogram_labels, 0, 0)
                       ELSE NoSamples
                cl == IF closing
                      THEN Append(closed,
                                  ClosedGroup(padded, chromatogram_labels))
                      ELSE closed
                base == IF closing THEN <<>> ELSE chromatogram_labels
            IN  IF closing /\ padded = Raised
                THEN Abort("ValueError", saved, closed)
                ELSE IF ~out.ok
                THEN Abort("IndexError", saved \o out.sav, cl)
                ELSE IF ~HasAnnotation(r.repl, r.seq)
                THEN Abort("KeyError", saved \o out.sav, cl)
                ELSE /\ chromatograms' = chromatograms \o out.man
                     /\ chromatogram_id' = IF closing
                                           THEN NextId(chromatogram_id)
                                           ELSE chromatogram_id
                     /\ saved' = saved \o out.sav
                     /\ closed' = cl
                     /\ OpenLabelled(r, base)
                     /\ UNCHANGED <<pc, err, labels>>
       ELSE AppendTrace(r)

\* the code after the loop
FinishSub ==
    /\ mode = "sub"
    /\ pc = "loop"
    /\ UNCHANGED <<infile, line_counter, parsed_annotations, loop_i, loop_j>>
    /\ UNCHANGED Params
    /\ LET padded == Pad(chromatogram, trace_counter)
           out == SubsectionsFinal(padded, Filename, chromatogram_id,
                                   chromatogram_labels, 0, 0)
       IN  IF chromatogram = None
           THEN Abort("AttributeError", saved, closed)
           ELSE IF padded = Raised
           THEN Abort("ValueError", saved, closed)
           ELSE IF ~out.ok
           THEN Abort("IndexError", saved \o out.sav,
                      Append(closed, ClosedGroup(padded, chromatogram_labels)))
           ELSE /\ pc' = "done"
                /\ chromatograms' = chromatograms \o out.man
                /\ chromatogram' = padded
                /\ saved' = saved \o out.sav
                /\ closed' = Append(closed,
                                    ClosedGroup(padded, chromatogram_labels))
                /\ UNCHANGED <<err, opened, last_seq, last_repl, last_charge,
                               trace_counter, chromatogram_id, labels,
                               row_labels, chromatogram_labels>>

-----------------------------------------------------------------------------
(* The pipelines *)

Next ==
    \/ \E r \in Rows : SkipRow(r)
    \/ \E r \in Rows : RowLstm(r)
    \/ FinishLstm
    \/ \E r \in Rows : RowCnn(r)
    \/ FinishCnn
    \/ \E r \in Rows : RowSub(r)
    \/ FinishSub

Spec == Init /\ [][Next]_vars

-----------------------------------------------------------------------------
(* The label derivation on its own: the first group of a cnn run is opened *)
(* on one row, drawn from every short time list over TimeVals              *)

TimeVals == {5, 10, 15, 20, 25}

TimeLists ==
    UNION {[1..n -> TimeVals] : n \in 1..MaxTimes} \cup {rA.times, rE.times}

LabelPcts == {0, 50, 100}

InitLabel ==
    /\ pc = "label"
    /\ parsed_annotations = annotations
    /\ mode = "cnn"
    /\ subsection_width \in Widths
    /\ step_size \in Steps
    /\ positive_percentage \in LabelPcts
    /\ InitLocals

LabelRow ==
    /\ pc = "label"
    /\ \E s \in {"A", "B"}, times \in TimeLists :
          LET r == Row("R1", s, "2", times, times)
          IN  /\ infile' = Append(infile, r)
              /\ line_counter' = line_counter + 1
              /\ OpenLabelled(r, chromatogram_labels)
    /\ pc' = "labelled"
    /\ UNCHANGED Params
    /\ UNCHANGED <<parsed_annotations, loop_i, loop_j>>
    /\ UNCHANGED <<err, chromatogram_id, chromatograms, labels, saved, closed>>

NextLabel == LabelRow

SpecLabel == InitLabel /\ [][NextLabel]_vars

-----------------------------------------------------------------------------
(* parse_skyline_exported_annotations *)

\* the text of the boundary fields met in the export, and what float() makes
\* of the numerals among them
FloatTable ==
    [s \in {"10", "15", "20", "30"} |->
        CASE s = "10" -> 10 [] s = "15" -> 15 [] s = "20" -> 20 [] s = "30" -> 30]
CanFloat(s) == s \in DOMAIN FloatTable
Float(s) == FloatTable[s]

\* line[2], line[13], line[15], line[16] of a line of the annotation export
AnnoBoundaries ==
    {<<"10", "20">>, <<"15", "30">>, <<NA, "20">>, <<"10", NA>>, <<"x", "20">>}
AnnoKeys == {<<"R1", "A">>, <<"R1", "B">>, <<"R2", "A">>}
AnnoLines ==
    {[repl |-> k[1], seq |-> k[2], start |-> b[1], end |-> b[2]] :
        k \in AnnoKeys, b \in AnnoBoundaries}

EmptyDict == [r \in {} |-> 0]

\* if repl not in annotations: annotations[repl] = {}
WithRepl(d, repl) ==
    IF repl \in DOMAIN d THEN d
    ELSE [r \in DOMAIN d \cup {repl} |-> IF r = repl THEN EmptyDict ELSE d[r]]

\* a variant of FirstSeen for which every line is the first of its pair
FirstSeenAlways(d, l) == TRUE

\* if seq not in annotations[repl], after the replicate has its dict
FirstSeen(d, l) == l.seq \notin DOMAIN WithRepl(d, l.repl)[l.repl]

\* annotations[repl][seq] = w
WithWindow(d, repl, seq, w) ==
    [d EXCEPT ![repl] =
        [s \in DOMAIN d[repl] \cup {seq} |->
            IF s = seq THEN w ELSE d[repl][s]]]

InitAnnotations ==
    /\ pc = "annotations"
    /\ mode = "annotations"
    /\ subsection_width = 0 /\ step_size = 0 /\ positive_percentage = 0
    /\ parsed_annotations = EmptyDict
    /\ InitLocals

\* one iteration of `for line in infile`
AnnotationLine(l) ==
    /\ pc = "annotations"
    /\ Len(infile) < MaxAnnoLines
    /\ infile' = Append(infile, l)
    /\ LET d == WithRepl(parsed_annotations, l.repl)
           missing == l.start = NA \/ l.end = NA
       IN  IF ~FirstSeen(parsed_annotations, l)
           THEN /\ parsed_annotations' = d
                /\ UNCHANGED <<pc, err>>
           ELSE IF missing
           THEN /\ parsed_annotations' =
                       WithWindow(d, l.repl, l.seq, [start |-> 0, end |-> 0])
                /\ UNCHANGED <<pc, err>>
           ELSE IF ~CanFloat(l.start) \/ ~CanFloat(l.end)
           THEN /\ parsed_annotations' = d
                /\ pc' = "aborted"
                /\ err' = "ValueError"
           ELSE /\ parsed_annotations' =
                       WithWindow(d, l.repl, l.seq,
                                  [start |-> Float(l.start),
                                   end |-> Float(l.end)])
                /\ UNCHANGED <<pc, err>>
    /\ UNCHANGED Params
    /\ UNCHANGED Locals
    /\ UNCHANGED <<line_counter, saved, opened, closed, loop_i, loop_j>>

\* return annotations
AnnotationsReturn ==
    /\ pc = "annotations"
    /\ pc' = "returned"
    /\ UNCHANGED Params
    /\ UNCHANGED Locals
    /\ UNCHANGED <<parsed_annotations, err, infile, line_counter, saved,
                   opened, closed, loop_i, loop_j>>

NextAnnotations ==
    \/ \E l \in AnnoLines : AnnotationLine(l)
    \/ AnnotationsReturn

SpecAnnotations == InitAnnotations /\ [][NextAnnotations]_vars

-----------------------------------------------------------------------------
(* The loops over a group's windows, one iteration per step: the labelling *)
(* loop, then the loop of a close inside the stream or the one after it    *)

\* longest time list of the group the loops run over
MaxLoopLen == 6

\* the group's rows: Lt times, 5 or 6 intensities
LoopTimes(n) == SubSeq(<<5, 10, 15, 20, 25, 30, 35, 40>>, 1, n)
LoopRows ==
    {Row("R1", s, "2", LoopTimes(lt), SubSeq(<<1, 2, 3, 4, 5, 6>>, 1, li)) :
        s \in {"A", "B"}, lt \in 1..MaxLoopLen, li \in {5, 6}}

\* a variant of Advance that leaves the offset where it is
AdvanceNot(i) == i

\* i += step_size
Advance(i) == i + step_size

\* the group is open on row r, its point labels derived, i = 0
InitLoops ==
    /\ pc = "window"
    /\ mode = "sub"
    /\ parsed_annotations = annotations
    /\ subsection_width \in Widths
    /\ step_size \in Steps
    /\ positive_percentage \in Pcts
    /\ \E r \in LoopRows :
          /\ infile = <<r>>
          /\ last_seq = r.seq /\ last_repl = r.repl /\ last_charge = r.charge
          /\ chromatogram = Vec(r.ints)
          /\ row_labels = PointLabels(annotations[r.repl][r.seq], r.times)
    /\ line_counter = 1
    /\ trace_counter = 1
    /\ opened = <<1>>
    /\ err = "none"
    /\ chromatogram_id = 0
    /\ chromatograms = <<>>
    /\ labels = <<>>
    /\ chromatogram_labels = <<>>
    /\ saved = <<>>
    /\ closed = <<>>
    /\ loop_i = 0
    /\ loop_j = 0

LoopFrame ==
    /\ UNCHANGED Params
    /\ UNCHANGED <<parsed_annotations, infile, line_counter, last_seq,
                   last_repl, last_charge, trace_counter, chromatogram_id,
                   labels, row_labels, opened>>

\* one iteration of while i + subsection_width <= times.shape[0]
WindowIteration ==
    /\ pc = "window"
    /\ loop_i + subsection_width <= Len(infile[1].times)
    /\ chromatogram_labels' =
          Append(chromatogram_labels,
                 WindowLabel(CountOnes(SubSeq(row_labels, loop_i + 1,
                                 Min(loop_i + subsection_width,
                                     Len(row_labels)))),
                             CountOnes(row_labels), subsection_width,
                             positive_percentage))
    /\ loop_i' = Advance(loop_i)
    /\ LoopFrame
    /\ UNCHANGED <<pc, err, chromatogram, chromatograms, saved, closed,
                   loop_j>>

\* the labelling loop is left; later the group is closed by a row (to =
\* "close") or by the end of the input (to = "final"): padded, i = 0, j = 0
WindowExit(to) ==
    /\ pc = "window"
    /\ ~(loop_i + subsection_width <= Len(infile[1].times))
    /\ LET padded == Pad(chromatogram, trace_counter)
       IN  IF padded = Raised
           THEN /\ pc' = "aborted"
                /\ err' = "ValueError"
                /\ UNCHANGED <<chromatogram, loop_i, loop_j>>
           ELSE /\ pc' = to
                /\ chromatogram' = padded
                /\ loop_i' = 0
                /\ loop_j' = 0
                /\ UNCHANGED err
    /\ LoopFrame
    /\ UNCHANGED <<chromatogram_labels, chromatograms, saved, closed>>

\* the loop condition of the close inside the stream (<=) and of the one
\* after it (<)
LoopCondition ==
    IF pc = "close"
    THEN loop_i + subsection_width <= NCols(chromatogram)
    ELSE loop_i + subsection_width < NCols(chromatogram)

\* one iteration of the loop that writes the samples of the closed group
SampleIteration ==
    /\ pc \in {"close", "final"}
    /\ LoopCondition
    /\ IF loop_j >= Len(chromatogram_labels)
       THEN /\ pc' = "aborted"
            /\ err' = "IndexError"
            /\ UNCHANGED <<chromatograms, saved, loop_i, loop_j>>
       ELSE LET one == Sample(chromatogram, Filename, chromatogram_id,
                              chromatogram_labels, loop_i, loop_j)
            IN  /\ chromatograms' = chromatograms \o one.man
                /\ saved' = saved \o one.sav
                /\ loop_i' = Advance(loop_i)
                /\ loop_j' = loop_j + 1
                /\ UNCHANGED <<pc, err>>
    /\ LoopFrame
    /\ UNCHANGED <<chromatogram, chromatogram_labels, closed>>

\* the loop that writes the samples is left
SampleExit ==
    /\ pc \in {"close", "final"}
    /\ ~LoopCondition
    /\ pc' = "done"
    /\ closed' = Append(closed, ClosedGroup(chromatogram, chromatogram_labels))
    /\ LoopFrame
    /\ UNCHANGED <<err, chromatogram, chromatogram_labels, chromatograms,
                   saved, loop_i, loop_j>>

NextLoops ==
    \/ WindowIteration
    \/ \E to \in {"close", "final"} : WindowExit(to)
    \/ SampleIteration
    \/ SampleExit

\* a loop whose next iteration or exit is possible takes it
SpecLoops == InitLoops /\ [][NextLoops]_vars /\ WF_vars(NextLoops)

-----------------------------------------------------------------------------
(* Properties *)

Last(q) == q[Len(q)]

\* n copies of x
Copies(x, n) == [t \in 1..n |-> x]

\* a group is active
Active == chromatogram # None

\* the first row of the n-th group opened
FirstRow(n) == infile[opened[n]]

\* this step handled a data row (not a skipped one) without an exception
RowStep ==
    /\ pc = "loop" /\ pc' = "loop"
    /\ Len(infile') = Len(infile) + 1
    /\ Last(infile').seq # NA

\* the step closed the active group, if any, and opened one on the row
DidOpen ==
    /\ Len(opened') = Len(opened) + 1
    /\ Last(opened') = Len(infile')
    /\ chromatogram' = Vec(Last(infile').ints)
    /\ trace_counter' = 1
    /\ IF Active
       THEN /\ Len(closed') = Len(closed) + 1
            /\ Last(closed').k = trace_counter
       ELSE closed' = closed

\* the step appended the row to the active group
DidAppend ==
    /\ opened' = opened
    /\ closed' = closed
    /\ chromatogram'.rows = Append(chromatogram.rows, Last(infile').ints)
    /\ trace_counter' = trace_counter + 1

\* no group is active, or the row's (sequence, charge) is not that of the
\* active group, or the active group holds MaxTraces rows
MustOpen ==
    \/ ~Active
    \/ Last(infile').seq # FirstRow(Len(opened)).seq
    \/ Last(infile').charge # FirstRow(Len(opened)).charge
    \/ NRows(chromatogram) = MaxTraces

SevenAThenTwoB == Copies(rA, 7) \o Copies(rB, 2)

C1_Example ==
    (pc = "done" /\ infile = SevenAThenTwoB) =>
        /\ Len(closed) = 3
        /\ closed[1].k = 6 /\ closed[2].k = 1 /\ closed[3].k = 2
        /\ closed[1].key[1] = "A" /\ closed[2].key[1] = "A"
        /\ closed[3].key[1] = "B"
        /\ mode \in {"lstm", "cnn"} =>
              /\ Len(chromatograms) = 3
              /\ \A n \in 1..3 : chromatograms[n][1] = n - 1

\* C1: a data row closes the active group and opens a new one exactly when
\* no group is active, its (sequence, charge) differs from the active group's
\* key or the active group holds MaxTraces rows; otherwise it is appended.
\* Seven rows of one key followed by two of another give three groups of
\* 6, 1 and 2 real rows.
C1_Segmentation ==
    /\ [][RowStep => IF MustOpen THEN DidOpen ELSE DidAppend]_vars
    /\ []C1_Example

C1_Witness ==
    /\ pc = "done"
    /\ infile = SevenAThenTwoB
    /\ Len(closed) = 3

\* the array as it was before np.save: the lstm pipeline saves the transpose
Untransposed(a) == IF mode = "lstm" THEN Transpose(a) ELSE a

\* C2: every array handed to np.save has exactly MaxTraces trace rows, and in
\* the whole-chromatogram pipelines the n-th file is the n-th closed group
\* padded to MaxTraces rows, however many real rows it had.
C2_SavedRows ==
    /\ \A n \in 1..Len(saved) : NRows(Untransposed(saved[n].arr)) = MaxTraces
    /\ \A n \in 1..Len(closed) :
          /\ closed[n].k \in 1..MaxTraces
          /\ NRows(closed[n].arr) = MaxTraces
    /\ (mode \in {"lstm", "cnn"} /\ pc # "aborted") =>
          /\ Len(saved) = Len(closed)
          /\ \A n \in 1..Len(saved) :
                Untransposed(saved[n].arr) = closed[n].arr

C2_Witness ==
    /\ pc = "done"
    /\ Len(saved) >= 2
    /\ Len(closed) >= 2
    /\ closed[1].k = 1
    /\ closed[2].k = 2
    /\ NRows(Untransposed(saved[1].arr)) = MaxTraces
    /\ NRows(Untransposed(saved[2].arr)) = MaxTraces

\* while the stream is read the counter is the row count of the active group
C3_Bounded ==
    /\ trace_counter <= MaxTraces
    /\ \A n \in 1..Len(closed) : closed[n].k <= MaxTraces
    /\ pc = "loop" =>
          /\ Active => NRows(chromatogram) = trace_counter
          /\ ~Active => trace_counter = 0

\* C3: the active group never holds more than MaxTraces rows; a row arriving
\* at a full group closes it and opens a new one, also when the key is the same.
C3_Cap ==
    /\ []C3_Bounded
    /\ [][(RowStep /\ trace_counter = MaxTraces) => DidOpen]_vars

C3_Witness ==
    /\ pc = "loop"
    /\ closed # <<>>
    /\ Last(closed).k = MaxTraces
    /\ Last(closed).key = Filename
    /\ trace_counter = 1

\* v is the point labelling of row r: one label per time, 1 exactly for the
\* times inside the closed annotation window of the row's (replicate, sequence)
IsPointLabelling(v, r) ==
    /\ Len(v) = Len(r.times)
    /\ \A t \in 1..Len(v) :
          /\ v[t] \in {0, 1}
          /\ v[t] = 1 <=>
                /\ annotations[r.repl][r.seq].start <= r.times[t]
                /\ r.times[t] <= annotations[r.repl][r.seq].end

\* C4: the point labels of a group are those of the times of its first row
\* against the annotation window of that row; window (10, 20) and times
\* 5, 10, 15, 20, 25 give 0, 1, 1, 1, 0.
C4_PointLabels ==
    /\ (mode = "lstm" /\ pc # "aborted") =>
          /\ Len(labels) = Len(opened)
          /\ \A n \in 1..Len(labels) :
                /\ IsPointLabelling(labels[n], FirstRow(n))
                /\ FirstRow(n) \in {rA, rA3} => labels[n] = <<0, 1, 1, 1, 0>>
    /\ (mode \in {"cnn", "sub"} /\ pc # "aborted" /\ opened # <<>>) =>
          /\ IsPointLabelling(row_labels, FirstRow(Len(opened)))
          /\ FirstRow(Len(opened)) \in {rA, rA3} =>
                row_labels = <<0, 1, 1, 1, 0>>

C4_Witness ==
    /\ mode = "lstm"
    /\ Len(labels) = 2
    /\ FirstRow(1) = rB
    /\ FirstRow(2) = rA
    /\ labels[2] = <<0, 1, 1, 1, 0>>

\* the number of 1s among v[i+1 .. i+w]
Positives(v, i, w) == Cardinality({t \in (i + 1)..(i + w) : v[t] = 1})

\* C5: the label of the window at offset i is 1 exactly when its positive
\* count reaches positive_percentage of all positives of the group or equals
\* the window width; point labels 0,1,1,1,0,0,1,1 with width 3, step 1 and
\* 100 percent give 0,1,0,0,0,0.
C5_WindowLabels ==
    pc = "labelled" =>
        /\ \A j \in 1..Len(chromatogram_labels) :
              LET i == (j - 1) * step_size
                  positive_count == Positives(row_labels, i, subsection_width)
                  total_positive == Positives(row_labels, 0, Len(row_labels))
              IN  /\ i + subsection_width <= Len(row_labels)
                  /\ chromatogram_labels[j] \in {0, 1}
                  /\ chromatogram_labels[j] = 1 <=>
                        \/ positive_count * 100
                              >= positive_percentage * total_positive
                        \/ positive_count = subsection_width
        /\ (/\ row_labels = <<0, 1, 1, 1, 0, 0, 1, 1>>
            /\ subsection_width = 3
            /\ step_size = 1
            /\ positive_percentage = 100) =>
              chromatogram_labels = <<0, 1, 0, 0, 0, 0>>

\* a fully positive window although the threshold exceeds the width
C5_Witness ==
    /\ pc = "labelled"
    /\ row_labels = <<0, 1, 1, 1, 0, 0, 1, 1>>
    /\ subsection_width = 3
    /\ step_size = 1
    /\ positive_percentage = 100
    /\ positive_percentage * Positives(row_labels, 0, 8) > subsection_width * 100
    /\ chromatogram_labels[2] = 1

\* C6: a group without positive point label and a strictly positive
\* positive_percentage has only 0 window labels.
C6_NoPositiveNoWindow ==
    (/\ mode \in {"cnn", "sub"}
     /\ pc \in {"loop", "done"}
     /\ Active
     /\ positive_percentage > 0
     /\ Positives(row_labels, 0, Len(row_labels)) = 0) =>
        \A j \in 1..Len(chromatogram_labels) : chromatogram_labels[j] = 0

\* C7: in the sub pipeline the file written for a manifest row named
\* <key>_<i>_to_<i+width-1> holds columns i .. i+width-1 of the padded group.
C7_SliceOfName ==
    (mode = "sub" /\ pc # "aborted") =>
        /\ Len(saved) = Len(chromatograms)
        /\ \A n \in 1..Len(saved) :
              /\ saved[n].name = chromatograms[n][2]
              /\ saved[n].arr =
                    ColSlice(closed[chromatograms[n][1] + 1].arr,
                             saved[n].name.lo, saved[n].name.hi + 1)
              /\ NCols(saved[n].arr) = subsection_width

\* C8: in the sub pipeline the ids of the manifest rows, in emission order,
\* are 0, 1, 2, ...
C8_DenseSampleIds ==
    mode = "sub" =>
        \A n \in 1..Len(chromatograms) : chromatograms[n][1] = n - 1

\* the manifest rows cut from the g-th closed group
SamplesOf(g) ==
    {n \in 1..Len(chromatograms) : chromatograms[n][1] = g - 1}

\* the number of offsets 0, step, 2 step, ... with offset + width <= L
WindowCount(L) ==
    IF L < subsection_width THEN 0
    ELSE (L - subsection_width) \div step_size + 1

\* C9: in the sub pipeline every closed group, the last one included, emits
\* one sample per offset j * step with offset + width <= L, as many as it has
\* window labels, and sample j carries window label j.
C9_SamplePerWindow ==
    (mode = "sub" /\ pc # "aborted") =>
        \A g \in 1..Len(closed) :
            /\ Cardinality(SamplesOf(g)) = WindowCount(NCols(closed[g].arr))
            /\ Cardinality(SamplesOf(g)) = Len(closed[g].lab)
            /\ \A n \in SamplesOf(g) :
                  LET j == Cardinality({m \in SamplesOf(g) : m < n})
                  IN  /\ chromatograms[n][2].lo = j * step_size
                      /\ chromatograms[n][3] = closed[g].lab[j + 1]

\* C10: in the whole-chromatogram pipelines every closed group has one
\* manifest row, the ids are 0 .. n-1 in emission order, and at the end of
\* the run every group opened has its row.
C10_ManifestIds ==
    (mode \in {"lstm", "cnn"} /\ pc # "aborted") =>
        /\ Len(chromatograms) = Len(closed)
        /\ \A n \in 1..Len(chromatograms) :
              /\ chromatograms[n][1] = n - 1
              /\ chromatograms[n][2] = closed[n].key
        /\ pc = "done" => Len(chromatograms) = Len(opened)

C10_Witness ==
    /\ mode \in {"lstm", "cnn"}
    /\ pc = "done"
    /\ Len(opened) = 3
    /\ Len(chromatograms) = 3
    /\ chromatograms[3][1] = 2

\* C11: a run that has read a data row whose (replicate, sequence) has no
\* annotation has aborted: no such row is taken into a group.
C11_MissingAnnotationAborts ==
    pc # "aborted" =>
        \A n \in 1..Len(infile) :
            infile[n].seq # NA => HasAnnotation(infile[n].repl, infile[n].seq)

\* the point labels of row r, from its times and its annotation window
PointLabelsOf(r) ==
    [t \in 1..Len(r.times) |->
        IF /\ annotations[r.repl][r.seq].start <= r.times[t]
           /\ r.times[t] <= annotations[r.repl][r.seq].end
        THEN 1 ELSE 0]

\* v is the window-label vector of the group opened by row r: one label per
\* offset 0, step, 2 step, ... with offset + width <= L, none when L < width,
\* each decided by the point labels of r alone
IsWindowLabelling(v, r) ==
    LET pl == PointLabelsOf(r)
        L == Len(r.times)
    IN  /\ Len(v) = WindowCount(L)
        /\ \A j \in 1..Len(v) :
              LET i == (j - 1) * step_size
              IN  /\ i + subsection_width <= L
                  /\ v[j] \in {0, 1}
                  /\ v[j] = 1 <=>
                        \/ Positives(pl, i, subsection_width) * 100
                              >= positive_percentage * Positives(pl, 0, L)
                        \/ Positives(pl, i, subsection_width)
                              = subsection_width
        /\ \A i \in 0..L :
              (i % step_size = 0 /\ i + subsection_width <= L) =>
                  i \div step_size + 1 \in 1..Len(v)

\* C12 (as stated): the window-label vector of every group with L time points
\* has length floor((L - width) / step) + 1.
C12_FloorLength ==
    (mode \in {"cnn", "sub"} /\ pc = "loop" /\ Active) =>
        Len(chromatogram_labels) =
            (Len(FirstRow(Len(opened)).times) - subsection_width)
                \div step_size + 1

\* C12: the window-label vector of a group with L time points has one label
\* per offset 0, step, ... with offset + width <= L, that is
\* floor((L - width) / step) + 1 labels when L >= width and none when
\* L < width, computed from the point labels of that group only: nothing of
\* an earlier group's vector is left in it.
C12_WindowVector ==
    /\ (mode \in {"cnn", "sub"} /\ pc \in {"loop", "done"} /\ Active) =>
          IsWindowLabelling(chromatogram_labels, FirstRow(Len(opened)))
    /\ (mode = "cnn" /\ pc \in {"loop", "done"}) =>
          /\ Len(labels) = Len(opened)
          /\ \A n \in 1..Len(labels) : IsWindowLabelling(labels[n], FirstRow(n))
    /\ (mode = "sub" /\ pc \in {"loop", "done"}) =>
          \A n \in 1..Len(closed) :
              IsWindowLabelling(closed[n].lab, FirstRow(n))

\* a group with labelled windows followed by a group shorter than the width
C12_Witness ==
    /\ mode = "cnn"
    /\ pc = "loop"
    /\ subsection_width = 3
    /\ step_size = 1
    /\ Len(labels) = 2
    /\ FirstRow(1) = rA
    /\ FirstRow(2) = rT
    /\ labels[1] = <<1, 1, 1>>
    /\ labels[2] = <<>>

\* the intensity vectors of the non-skipped rows read, in input order
DataInts ==
    LET data == SelectSeq(infile, LAMBDA r : r.seq # NA)
    IN  [n \in 1..Len(data) |-> data[n].ints]

\* the real traces (rows 1..k) of the first n closed groups, in order
RECURSIVE RealRows(_)
RealRows(n) ==
    IF n = 0 THEN <<>>
    ELSE RealRows(n - 1) \o SubSeq(closed[n].arr.rows, 1, closed[n].k)

\* the last n elements of q
Tail_(q, n) == SubSeq(q, Len(q) - n + 1, Len(q))

\* C13: after a completed run the real traces of the persisted groups are the
\* intensity vectors of the non-skipped rows, each once and in input order,
\* and the group active at end of input is persisted as a group closed inside
\* the stream is: whole and padded under its key in the whole-chromatogram
\* pipelines, as the samples of the in-stream loop in the sub pipeline.
C13_EndOfInput ==
    pc = "done" =>
        /\ RealRows(Len(closed)) = DataInts
        /\ mode \in {"lstm", "cnn"} =>
              /\ Len(saved) = Len(closed)
              /\ \A n \in 1..Len(closed) :
                    /\ saved[n].name = closed[n].key
                    /\ Untransposed(saved[n].arr) = closed[n].arr
        /\ mode = "sub" =>
              LET g == Last(closed)
                  out == SubsectionsClose(g.arr, g.key, chromatogram_id,
                                          g.lab, 0, 0)
              IN  /\ out.ok
                  /\ Cardinality(SamplesOf(chromatogram_id + 1)) = Len(out.man)
                  /\ Len(out.man) <= Len(chromatograms)
                  /\ Tail_(chromatograms, Len(out.man)) = out.man
                  /\ Tail_(saved, Len(out.sav)) = out.sav

\* the file name root a group opened by row r is saved under
KeyOf(r) == <<r.seq, r.repl, r.charge>>

\* C14: after a completed run of a whole-chromatogram pipeline the label
\* artifact has one row per manifest row, manifest row n carries id n - 1 and
\* the key of the n-th group, and the label row at that id is the label
\* vector of that group.
C14_LabelsByManifestId ==
    (mode \in {"lstm", "cnn"} /\ pc = "done") =>
        /\ Len(labels) = Len(chromatograms)
        /\ Len(opened) = Len(chromatograms)
        /\ \A n \in 1..Len(chromatograms) :
              LET id == chromatograms[n][1]
              IN  /\ id = n - 1
                  /\ chromatograms[n][2] = KeyOf(FirstRow(n))
                  /\ mode = "lstm" =>
                        labels[id + 1] = PointLabelsOf(FirstRow(n))
                  /\ mode = "cnn" =>
                        IsWindowLabelling(labels[id + 1], FirstRow(n))

\* a completed run with three groups whose label rows differ
C14_Witness ==
    /\ mode = "lstm"
    /\ pc = "done"
    /\ Len(chromatograms) = 3
    /\ FirstRow(1) = rB
    /\ FirstRow(2) = rA
    /\ FirstRow(3) = rB
    /\ labels = << <<0, 0, 0, 0, 0>>, <<0, 1, 1, 1, 0>>, <<0, 0, 0, 0, 0>> >>

\* the step read a row whose sequence field is the missing-value marker
SkipStep ==
    /\ Len(infile') = Len(infile) + 1
    /\ Last(infile').seq = NA

\* C15: reading a row whose sequence field is '#N/A' advances the line
\* counter and changes nothing else: no group is opened, closed or extended,
\* no label derived, nothing written; between two rows of one key it does
\* not split their group.
C15_SkipRow ==
    /\ [][SkipStep =>
            /\ line_counter' = line_counter + 1
            /\ UNCHANGED <<pc, err, last_seq, last_repl, last_charge,
                           trace_counter, chromatogram, chromatogram_id,
                           chromatograms, labels, row_labels,
                           chromatogram_labels, saved, opened, closed>>]_vars
    /\ [](\A n \in 1..Len(infile) :
            (/\ pc = "loop"
             /\ n + 2 = Len(infile)
             /\ infile[n + 1].seq = NA
             /\ infile[n].seq # NA
             /\ infile[n + 2].seq = infile[n].seq
             /\ infile[n + 2].charge = infile[n].charge
             /\ Last(opened) = n + 2) =>
                Last(closed).k = MaxTraces)

\* a skipped row between two rows of one group
C15_Witness ==
    /\ pc = "loop"
    /\ infile = <<rA, rNA, rA>>
    /\ line_counter = 3
    /\ opened = <<1>>
    /\ closed = <<>>
    /\ trace_counter = 2
    /\ chromatogram = Mat(<<rA.ints, rA.ints>>)

\* the dict holds a window for (repl, seq)
Parsed(repl, seq) ==
    /\ repl \in DOMAIN parsed_annotations
    /\ seq \in DOMAIN parsed_annotations[repl]

\* the lines read so far that carry the pair (repl, seq)
LinesOf(repl, seq) ==
    {n \in 1..Len(infile) : infile[n].repl = repl /\ infile[n].seq = seq}

\* the window line l gives its pair when it is the first line of that pair
WindowOf(l) ==
    IF l.start = NA \/ l.end = NA
    THEN [start |-> 0, end |-> 0]
    ELSE [start |-> FloatTable[l.start], end |-> FloatTable[l.end]]

\* C16: the annotation index holds a pair exactly when a line of that pair
\* was read, and maps it to the window of the first such line, (0, 0) when
\* either boundary of that line is '#N/A'; a later line never changes the
\* window of a pair.
C16_FirstLineWins ==
    /\ [](pc \in {"annotations", "returned"} =>
            \A k \in AnnoKeys :
                LET occ == LinesOf(k[1], k[2])
                IN  IF occ = {}
                    THEN ~Parsed(k[1], k[2])
                    ELSE LET first == CHOOSE n \in occ : \A o \in occ : n <= o
                         IN  /\ Parsed(k[1], k[2])
                             /\ parsed_annotations[k[1]][k[2]]
                                   = WindowOf(infile[first]))
    /\ [][\A k \in AnnoKeys :
            (pc \in {"annotations", "returned"} /\ Parsed(k[1], k[2])) =>
                /\ Parsed(k[1], k[2])'
                /\ parsed_annotations'[k[1]][k[2]]
                      = parsed_annotations[k[1]][k[2]]]_vars

\* a pair whose first line lacks a boundary, then another window for it
C16_Witness ==
    /\ pc = "returned"
    /\ Len(infile) = 3
    /\ infile[1] = [repl |-> "R1", seq |-> "A", start |-> NA, end |-> "20"]
    /\ infile[2] = [repl |-> "R1", seq |-> "A", start |-> "10", end |-> "20"]
    /\ infile[3] = [repl |-> "R2", seq |-> "A", start |-> "15", end |-> "30"]
    /\ parsed_annotations["R1"]["A"] = [start |-> 0, end |-> 0]
    /\ parsed_annotations["R2"]["A"] = [start |-> 15, end |-> 30]

\* the step has to close the active group: end of input, or a data row that
\* cannot join it
CloseStep ==
    /\ pc = "loop"
    /\ Active
    /\ \/ infile' = infile /\ pc' # "loop"
       \/ /\ Len(infile') = Len(infile) + 1
          /\ Last(infile').seq # NA
          /\ MustOpen

\* the step closed the active group as its k rows followed by
\* MaxTraces - k rows of L zeros
ClosedPadded ==
    /\ Len(closed') = Len(closed) + 1
    /\ Last(closed').k = trace_counter
    /\ Last(closed').arr =
          Mat(chromatogram.rows
              \o Copies(Copies(0, NCols(chromatogram)),
                        MaxTraces - trace_counter))

\* C17: whenever a group of k < MaxTraces rows of any length L >= 1 is
\* closed, MaxTraces - k all-zero rows of length L are appended after its
\* last real trace, which leaves the real traces as rows 0 .. k-1.
C17_PaddingOnClose ==
    [][(CloseStep /\ trace_counter < MaxTraces) => ClosedPadded]_vars

\* C18: an aborted run leaves no array persisted.
C18_AbortLeavesNothing ==
    (mode \in {"lstm", "cnn", "sub"} /\ pc = "aborted") => saved = <<>>

\* the first row of the group that data row n of a run not aborted went into
GroupRowOf(n) ==
    LET g == CHOOSE g \in 1..Len(opened) :
                 /\ opened[g] <= n
                 /\ \A h \in 1..Len(opened) : opened[h] <= n => h <= g
    IN  FirstRow(g)

\* C19: every row taken into a group has the replicate of the row that
\* opened the group, the one of the group's key, filename and annotation
\* window.
C19_OneReplicatePerGroup ==
    pc \in {"loop", "done"} =>
        \A n \in 1..Len(infile) :
            infile[n].seq # NA => infile[n].repl = GroupRowOf(n).repl

\* every row read has as many times as intensities
EqualLengths ==
    \A n \in 1..Len(infile) : Len(infile[n].times) = Len(infile[n].ints)

\* C20: in the lstm pipeline, when every row has as many times as
\* intensities, the assertion at a group close never fails: the label vector
\* that is last when a group closes is the one derived for that group, it
\* has one 0 or 1 per row of the transposed array saved for the group, and
\* so it is for the group closed after the input.
C20_AssertionHolds ==
    (mode = "lstm" /\ EqualLengths) =>
        /\ err # "AssertionError"
        /\ Len(saved) = Len(closed)
        /\ Len(saved) <= Len(labels)
        /\ \A n \in 1..Len(saved) :
              /\ closed[n].lab = labels[n]
              /\ labels[n] = PointLabelsOf(FirstRow(n))
              /\ Len(labels[n]) = NRows(saved[n].arr)
              /\ \A t \in 1..Len(labels[n]) : labels[n][t] \in {0, 1}

\* a group of 5 time points closed by the row that opens one of 8, which is
\* closed after the input
C20_Witness ==
    /\ mode = "lstm"
    /\ pc = "done"
    /\ infile = <<rB, rE>>
    /\ Len(saved) = 2
    /\ NRows(saved[1].arr) = 5 /\ Len(labels[1]) = 5
    /\ NRows(saved[2].arr) = 8 /\ Len(labels[2]) = 8

\* the array a file holds after the np.save calls so far: that of the last
\* call under its name
Stored(name) ==
    LET calls == {n \in 1..Len(saved) : saved[n].name = name}
        last == CHOOSE n \in calls : \A o \in calls : o <= n
    IN  saved[last].arr

\* C21: after a completed run of a whole-chromatogram pipeline distinct
\* manifest rows name distinct files, and the file named by a manifest row
\* holds the array of the group that produced the row.
C21_DistinctFiles ==
    (mode \in {"lstm", "cnn"} /\ pc = "done") =>
        /\ \A m, n \in 1..Len(chromatograms) :
              m # n => chromatograms[m][2] # chromatograms[n][2]
        /\ \A n \in 1..Len(chromatograms) :
              Stored(chromatograms[n][2]) = Untransposed(closed[n].arr)

\* no row read so far is a data row
NoDataRows == \A n \in 1..Len(infile) : infile[n].seq = NA

\* C22: a run over an export without data rows completes without error and
\* emits no manifest row, no label row and no array.
C22_EmptyInputCompletes ==
    (mode \in {"lstm", "cnn", "sub"} /\ pc # "loop" /\ NoDataRows) =>
        /\ pc = "done"
        /\ err = "none"
        /\ chromatograms = <<>>
        /\ labels = <<>>
        /\ saved = <<>>

\* the step is one iteration of a loop over the windows
LoopIteration ==
    /\ pc \in {"window", "close", "final"}
    /\ pc' = pc
    /\ <<loop_i, chromatogram_labels, chromatograms>>
          # <<loop_i, chromatogram_labels, chromatograms>>'

\* C23 (as stated): the labelling loop of a group with L time points makes at
\* most floor((L - width) / step) + 1 iterations.
C23_FloorBound ==
    pc = "window" =>
        Len(chromatogram_labels) <=
            (Len(infile[1].times) - subsection_width) \div step_size + 1

\* C23: with step_size >= 1 and subsection_width >= 1 the loops over a
\* group's windows end, in completion or abort: every iteration increases
\* the offset by step_size, the labelling loop makes at most
\* floor((L - width) / step) + 1 iterations when L >= width and none when
\* L < width, and so does the loop that writes the samples.
C23_LoopsTerminate ==
    /\ <>(pc \in {"done", "aborted"})
    /\ [][LoopIteration => loop_i' = loop_i + step_size /\ loop_i' > loop_i]_vars
    /\ [](pc = "window" =>
            /\ loop_i = Len(chromatogram_labels) * step_size
            /\ Len(chromatogram_labels) <= WindowCount(Len(infile[1].times)))
    /\ [](pc \in {"close", "final"} =>
            /\ loop_i = loop_j * step_size
            /\ loop_j = Len(chromatograms)
            /\ loop_j <= WindowCount(NCols(chromatogram)))

\* both loops ran to their end over 5 time points: 4 labels, 4 samples
C23_Witness ==
    /\ pc = "done"
    /\ subsection_width = 2
    /\ step_size = 1
    /\ Len(infile[1].times) = 5
    /\ Len(chromatogram_labels) = 4
    /\ loop_j = 4
    /\ loop_i = 4
    /\ Len(saved) = 4

====
